---- MODULE Spec2Model ----
(***************************************************************************)
(* A model of glow's non-owning view types (include/glow/Support/ADT.h):   *)
(* StringRef, ArrayRef and MutableArrayRef.                                *)
(*                                                                         *)
(* A view is a pointer and a length.  A pointer is modelled as an offset   *)
(* into the one backing buffer of the model (or the null pointer), a       *)
(* size_t as a natural number below 2^WordBits with wrapping arithmetic,   *)
(* and a char as its byte value.  The library has no state of its own: the *)
(* state machine is a caller that holds one view and calls one member      *)
(* function at a time, recording the call and what it returned.            *)
(***************************************************************************)
EXTENDS Integers, Sequences, FiniteSets

\* ------------------------------------------------------------------ bounds
\* Longest backing buffer / backing array.
MaxLen == 3
\* Longest argument string (Prefix, Suffix, RHS).
MaxArgLen == 2
\* Width of size_t in bits.
WordBits == 4

\* ------------------------------------------------------------- size_t, char
RECURSIVE Pow2(_)
Pow2(n) == IF n = 0 THEN 1 ELSE 2 * Pow2(n - 1)

SizeMod == Pow2(WordBits)

\* static const size_t npos = ~size_t(0)
npos == SizeMod - 1

\* size_t arithmetic: unsigned, modulo 2^WordBits
SizeAdd(a, b) == (a + b) % SizeMod
SizeSub(a, b) == (a - b + SizeMod) % SizeMod

Min(a, b) == IF a < b THEN a ELSE b
Max(a, b) == IF a < b THEN b ELSE a

\* The bytes the buffers are made of: 'a' and one byte above 127.
Chars == {97, 200}

\* The size_t arguments the caller passes: everything near the buffer, and
\* the two largest values.
SizeArgs == (0 .. MaxLen + 1) \cup {npos - 1, npos}

RECURSIVE SeqsUpTo(_, _)
SeqsUpTo(S, n) ==
  IF n = 0 THEN {<< >>}
  ELSE LET shorter == SeqsUpTo(S, n - 1)
       IN  shorter \cup {Append(q, x) : q \in shorter, x \in S}

\* The buffers a view may be constructed over, and the argument strings.
Buffers == SeqsUpTo(Chars, MaxLen)
ArgStrings == SeqsUpTo(Chars, MaxArgLen)

VARIABLES
  buf,      \* the characters of the external buffer the StringRef points into
  S,        \* the caller's StringRef: Data (null, or an offset into buf), Length
  arrLen,   \* the number of elements of the external array
  A,        \* the caller's ArrayRef / MutableArrayRef: data_ (offset), length_
  ndebug,   \* TRUE when assert() is compiled out (NDEBUG)
  call      \* the last call: its name, receiver, arguments and what it returned

vars == <<buf, S, arrLen, A, ndebug, call>>

\* ---------------------------------------------------------------- StringRef
\* StringRef(): Data = nullptr, Length = 0
EmptyRef == [null |-> TRUE, off |-> 0, len |-> 0]

\* StringRef(const char *data, size_t length)
MkRef(null, off, length) == [null |-> null, off |-> off, len |-> length]

\* Data + n
PtrAdd(v, n) == v.off + n

\* Data[i]; a read outside the buffer yields a byte that is no character of it
Garbage == 0
CharAt(v, i) ==
  IF ~v.null /\ v.off + i + 1 \in 1 .. Len(buf) THEN buf[v.off + i + 1] ELSE Garbage

\* The characters a view denotes: Data[0] .. Data[Length - 1]
Str(v) == [i \in 1 .. v.len |-> CharAt(v, i - 1)]

\* The memory readable from pointer Data + n: the rest of the buffer
MemAt(v, n) ==
  IF v.null THEN << >>
  ELSE [i \in 1 .. Max(0, Len(buf) - (v.off + n)) |-> CharAt(v, n + i - 1)]


Byte(mem, i) == IF i \in DOMAIN mem THEN mem[i] ELSE Garbage

\* ::memcmp(Lhs, Rhs, Length): the difference of the first pair of bytes (as
\* unsigned char) that differ among the first Length, 0 when none does
RECURSIVE memcmpFrom(_, _, _, _)
memcmpFrom(Lhs, Rhs, i, Length) ==
  IF i > Length THEN 0
  ELSE IF Byte(Lhs, i) # Byte(Rhs, i) THEN Byte(Lhs, i) - Byte(Rhs, i)
  ELSE memcmpFrom(Lhs, Rhs, i + 1, Length)

memcmp(Lhs, Rhs, Length) == memcmpFrom(Lhs, Rhs, 1, Length)

\* static int compareMemory(const char *Lhs, const char *Rhs, size_t Length)
compareMemory(Lhs, Rhs, Length) ==
  IF Length = 0 THEN 0 ELSE memcmp(Lhs, Rhs, Length)

\* int compare(StringRef RHS) const, for the receiver's characters L and the
\* argument's characters R (Data .. Data + Length of each)
\* Faulty variant: memcmp's result returned as it is, not as -1 / +1.
compareUnnormalised(L, R) ==
  LET Res == compareMemory(L, R, Min(Len(L), Len(R)))
  IN  IF Res # 0 THEN Res
      ELSE IF Len(L) = Len(R) THEN 0
      ELSE IF Len(L) < Len(R) THEN -1 ELSE 1

compare(L, R) ==
  LET Res == compareMemory(L, R, Min(Len(L), Len(R)))
  IN  IF Res # 0 THEN (IF Res < 0 THEN -1 ELSE 1)
      ELSE IF Len(L) = Len(R) THEN 0
      ELSE IF Len(L) < Len(R) THEN -1 ELSE 1

\* bool startswith(StringRef Prefix) const
startswith(v, Prefix) ==
  /\ v.len >= Len(Prefix)
  /\ compareMemory(MemAt(v, 0), Prefix, Len(Prefix)) = 0

\* bool endswith(StringRef Suffix) const
endswith(v, Suffix) ==
  /\ v.len >= Len(Suffix)
  /\ compareMemory(MemAt(v, v.len - Len(Suffix)), Suffix, Len(Suffix)) = 0

\* ::memchr(p, C, n): the index from p of the first byte equal to C among the
\* first n, NullP when there is none
NullP == -1
RECURSIVE memchrFrom(_, _, _, _)
memchrFrom(mem, C, i, n) ==
  IF i >= n THEN NullP
  ELSE IF Byte(mem, i + 1) = C THEN i
  ELSE memchrFrom(mem, C, i + 1, n)

memchr(mem, C, n) == memchrFrom(mem, C, 0, n)

\* size_t find(char C, size_t From = 0) const
\* Faulty variant: the search starts at index 0 whatever From is.
findIgnoringFrom(v, C, From) ==
  IF 0 < v.len
  THEN LET P == memchr(MemAt(v, 0), C, v.len)
       IN  IF P # NullP THEN P ELSE npos
  ELSE npos

find(v, C, From) ==
  LET FindBegin == Min(From, v.len)
  IN  IF FindBegin < v.len
      THEN LET P == memchr(MemAt(v, FindBegin), C, v.len - FindBegin)
           IN  IF P # NullP THEN FindBegin + P ELSE npos
      ELSE npos

\* The indices of the view that find reads: memchr reads the bytes in order
\* and stops at the first match.
findReads(v, C, From) ==
  LET FindBegin == Min(From, v.len)
  IN  IF FindBegin < v.len
      THEN LET P == memchr(MemAt(v, FindBegin), C, v.len - FindBegin)
           IN  FindBegin .. (IF P # NullP THEN FindBegin + P ELSE v.len - 1)
      ELSE {}

\* size_t rfind(char C, size_t From = npos) const: the while loop from i
RECURSIVE rfindLoop(_, _, _)
rfindLoop(v, C, i) ==
  IF i = 0 THEN npos
  ELSE IF CharAt(v, i - 1) = C THEN i - 1
  ELSE rfindLoop(v, C, i - 1)

\* Faulty variant: the bound From is taken as inclusive.
rfindInclusive(v, C, From) == rfindLoop(v, C, Min(SizeAdd(Min(From, npos - 1), 1), v.len))

rfind(v, C, From) == rfindLoop(v, C, Min(From, v.len))

\* StringRef substr(size_t Start, size_t N = npos) const
\* Faulty variant: Start is not clamped to Length.
substrUnclamped(v, Start, N) == MkRef(v.null, PtrAdd(v, Start), Min(N, SizeSub(v.len, Start)))

substr(v, Start, N) ==
  LET St == Min(Start, v.len)
  IN  MkRef(v.null, PtrAdd(v, St), Min(N, SizeSub(v.len, St)))

\* assert(size() >= N && "Dropping more elements than exist") fails
dropAssertFails(v, N) == ~ndebug /\ ~(v.len >= N)

\* StringRef drop_front(size_t N = 1) const, past its assert
\* Faulty variant: one character too many is dropped.
drop_frontOffByOne(v, N) == substr(v, SizeAdd(N, 1), npos)

drop_front(v, N) == substr(v, N, npos)

\* StringRef drop_back(size_t N = 1) const, past its assert
drop_back(v, N) == substr(v, 0, SizeSub(v.len, N))

\* StringRef take_front(size_t N = 1) const
take_front(v, N) ==
  IF N >= v.len THEN v ELSE drop_back(v, SizeSub(v.len, N))

take_frontFails(v, N) == ~(N >= v.len) /\ dropAssertFails(v, SizeSub(v.len, N))

\* StringRef take_back(size_t N = 1) const
take_back(v, N) ==
  IF N >= v.len THEN v ELSE drop_front(v, SizeSub(v.len, N))

take_backFails(v, N) == ~(N >= v.len) /\ dropAssertFails(v, SizeSub(v.len, N))

\* StringRef slice(size_t Start, size_t End) const
\* Faulty variant: End is not raised to Start.
sliceUnordered(v, Start, End) ==
  LET St == Min(Start, v.len)
      En == Min(End, v.len)
  IN  MkRef(v.null, PtrAdd(v, St), SizeSub(En, St))

slice(v, Start, End) ==
  LET St == Min(Start, v.len)
      En == Min(Max(St, End), v.len)
  IN  MkRef(v.null, PtrAdd(v, St), SizeSub(En, St))

\* std::pair<StringRef, StringRef> split(char Separator) const
\* Faulty variant: the right half starts at the separator.
splitKeepingSeparator(v, Separator) ==
  LET Idx == find(v, Separator, 0)
  IN  IF Idx = npos THEN <<v, EmptyRef>>
      ELSE <<slice(v, 0, Idx), slice(v, Idx, npos)>>

split(v, Separator) ==
  LET Idx == find(v, Separator, 0)
  IN  IF Idx = npos THEN <<v, EmptyRef>>
      ELSE <<slice(v, 0, Idx), slice(v, SizeAdd(Idx, 1), npos)>>

\* bool consume_front(StringRef Prefix): the value returned and *this after it
\* Faulty variant: only the lengths are compared.
consume_frontByLengthOnly(v, Prefix) ==
  IF ~(v.len >= Len(Prefix)) THEN [ret |-> FALSE, this |-> v]
  ELSE [ret |-> TRUE, this |-> drop_front(v, Len(Prefix))]

consume_front(v, Prefix) ==
  IF ~startswith(v, Prefix) THEN [ret |-> FALSE, this |-> v]
  ELSE [ret |-> TRUE, this |-> drop_front(v, Len(Prefix))]

\* bool consume_back(StringRef Suffix): the value returned and *this after it
consume_back(v, Suffix) ==
  IF ~endswith(v, Suffix) THEN [ret |-> FALSE, this |-> v]
  ELSE [ret |-> TRUE, this |-> drop_back(v, Len(Suffix))]

\* The assert of drop_front / drop_back inside consume_front / consume_back
consume_frontFails(v, Prefix) ==
  startswith(v, Prefix) /\ dropAssertFails(v, Len(Prefix))

consume_backFails(v, Suffix) ==
  endswith(v, Suffix) /\ dropAssertFails(v, Len(Suffix))

\* ------------------------------------------------------- the calling program
NoCall == [op |-> "none", aborted |-> FALSE]

\* The caller is between two calls.
Idle == call.op = "none"

\* A failed assert aborts the program: nothing runs after it.
Aborted(op, args) ==
  /\ call' = [op |-> op, self |-> S, args |-> args, aborted |-> TRUE]
  /\ UNCHANGED <<buf, S, arrLen, A, ndebug>>

\* A call that returned the view ret, which the caller keeps as its view.
Returned(op, args, ret) ==
  /\ call' = [op |-> op, self |-> S, args |-> args, ret |-> ret, aborted |-> FALSE]
  /\ S' = ret
  /\ UNCHANGED <<buf, arrLen, A, ndebug>>

\* S = S.substr(Start, N)
Substr(Start, N) ==
  /\ Idle
  /\ Returned("substr", <<Start, N>>, substr(S, Start, N))

\* S = S.slice(Start, End)
Slice(Start, End) ==
  /\ Idle
  /\ Returned("slice", <<Start, End>>, slice(S, Start, End))

\* S = S.take_front(N)
TakeFront(N) ==
  /\ Idle
  /\ IF take_frontFails(S, N) THEN Aborted("take_front", <<N>>)
     ELSE Returned("take_front", <<N>>, take_front(S, N))

\* S = S.take_back(N)
TakeBack(N) ==
  /\ Idle
  /\ IF take_backFails(S, N) THEN Aborted("take_back", <<N>>)
     ELSE Returned("take_back", <<N>>, take_back(S, N))

\* S = S.drop_front(N)
DropFront(N) ==
  /\ Idle
  /\ IF dropAssertFails(S, N) THEN Aborted("drop_front", <<N>>)
     ELSE Returned("drop_front", <<N>>, drop_front(S, N))

\* S = S.drop_back(N)
DropBack(N) ==
  /\ Idle
  /\ IF dropAssertFails(S, N) THEN Aborted("drop_back", <<N>>)
     ELSE Returned("drop_back", <<N>>, drop_back(S, N))

\* S.consume_front(Prefix)
ConsumeFront(Prefix) ==
  /\ Idle
  /\ IF consume_frontFails(S, Prefix) THEN Aborted("consume_front", <<Prefix>>)
     ELSE /\ call' = [op |-> "consume_front", self |-> S, args |-> <<Prefix>>,
                      ret |-> consume_front(S, Prefix).ret, mem |-> buf,
                      aborted |-> FALSE]
          /\ S' = consume_front(S, Prefix).this
          /\ UNCHANGED <<buf, arrLen, A, ndebug>>

\* S.consume_back(Suffix)
ConsumeBack(Suffix) ==
  /\ Idle
  /\ IF consume_backFails(S, Suffix) THEN Aborted("consume_back", <<Suffix>>)
     ELSE /\ call' = [op |-> "consume_back", self |-> S, args |-> <<Suffix>>,
                      ret |-> consume_back(S, Suffix).ret, mem |-> buf,
                      aborted |-> FALSE]
          /\ S' = consume_back(S, Suffix).this
          /\ UNCHANGED <<buf, arrLen, A, ndebug>>

\* auto P = S.split(Separator); S = P.first or S = P.second
Split(Separator, half) ==
  /\ Idle
  /\ call' = [op |-> "split", self |-> S, args |-> <<Separator>>,
              ret |-> split(S, Separator), aborted |-> FALSE]
  /\ S' = split(S, Separator)[half]
  /\ UNCHANGED <<buf, arrLen, A, ndebug>>

\* S.find(C, From)
Find(C, From) ==
  /\ Idle
  /\ call' = [op |-> "find", self |-> S, args |-> <<C, From>>,
              ret |-> find(S, C, From), reads |-> findReads(S, C, From),
              aborted |-> FALSE]
  /\ UNCHANGED <<buf, S, arrLen, A, ndebug>>

\* S.rfind(C, From)
RFind(C, From) ==
  /\ Idle
  /\ call' = [op |-> "rfind", self |-> S, args |-> <<C, From>>,
              ret |-> rfind(S, C, From), aborted |-> FALSE]
  /\ UNCHANGED <<buf, S, arrLen, A, ndebug>>

\* S.compare(RHS), with the comparisons the ordering laws relate it to:
\* RHS.compare(S), RHS.compare(Third) and S.compare(Third)
Compare(RHS, Third) ==
  /\ Idle
  /\ call' = [op |-> "compare", self |-> S, args |-> <<RHS, Third>>,
              ret |-> compare(Str(S), RHS),
              back |-> compare(RHS, Str(S)),
              next |-> compare(RHS, Third),
              far |-> compare(Str(S), Third),
              aborted |-> FALSE]
  /\ UNCHANGED <<buf, S, arrLen, A, ndebug>>

\* The caller is done with the result of a call that returned.
Return ==
  /\ ~Idle
  /\ ~call.aborted
  /\ call' = NoCall
  /\ UNCHANGED <<buf, S, arrLen, A, ndebug>>

\* A StringRef over the whole buffer, StringRef(data, length), or StringRef()
Init ==
  /\ buf \in Buffers
  /\ S \in {MkRef(FALSE, 0, Len(buf)), EmptyRef}
  /\ ndebug \in BOOLEAN
  /\ call = NoCall
  /\ arrLen = 0
  /\ A = [mut |-> FALSE, off |-> 0, len |-> 0]

Next ==
  \/ \E Start \in SizeArgs, N \in SizeArgs : Substr(Start, N)
  \/ \E Start \in SizeArgs, End \in SizeArgs : Slice(Start, End)
  \/ \E N \in SizeArgs : TakeFront(N)
  \/ \E N \in SizeArgs : TakeBack(N)
  \/ \E N \in SizeArgs : DropFront(N)
  \/ \E N \in SizeArgs : DropBack(N)
  \/ \E Prefix \in ArgStrings : ConsumeFront(Prefix)
  \/ \E Suffix \in ArgStrings : ConsumeBack(Suffix)
  \/ \E Separator \in Chars, half \in 1 .. 2 : Split(Separator, half)
  \/ \E C \in Chars, From \in SizeArgs : Find(C, From)
  \/ \E C \in Chars, From \in SizeArgs : RFind(C, From)
  \/ \E RHS \in ArgStrings, Third \in ArgStrings : Compare(RHS, Third)
  \/ Return

Spec == Init /\ [][Next]_vars

\* ------------------------------------------------ ArrayRef, MutableArrayRef
\* ArrayRef(const T *data, size_t length) / MutableArrayRef(T *data, size_t length)
MkArr(mut, off, length) == [mut |-> mut, off |-> off, len |-> length]

\* data() + N leaves the array (it is neither an element nor one past the last)
PtrLeavesArray(a, N) == a.off + N \notin 0 .. arrLen

\* ArrayRef<T> drop_front() const
ArrayRef_drop_front(a) == MkArr(FALSE, a.off + 1, SizeSub(a.len, 1))

\* assert(size() >= 1 && "Array is empty") fails
ArrayRef_emptyAssertFails(a) == ~ndebug /\ ~(a.len >= 1)

\* ArrayRef<T> drop_back(size_t N = 1) const
ArrayRef_drop_back(a, N) == MkArr(FALSE, a.off, SizeSub(a.len, 1))

\* MutableArrayRef<T> slice(size_t N, size_t M) const
MutableArrayRef_slice(a, N, M) == MkArr(TRUE, a.off + N, M)

\* assert(N + M <= this->size() && "Invalid specifier") fails
sliceAssertFails(a, N, M) == ~ndebug /\ ~(SizeAdd(N, M) <= a.len)

\* assert(this->size() >= N && "Dropping more elements than exist") fails
arrDropAssertFails(a, N) == ~ndebug /\ ~(a.len >= N)

\* A call on the array view that failed an assert.
ArrAborted(op, args) ==
  /\ call' = [op |-> op, self |-> A, args |-> args, aborted |-> TRUE, ub |-> FALSE]
  /\ UNCHANGED <<buf, S, arrLen, A, ndebug>>

\* A call whose pointer arithmetic left the array: its behaviour is undefined.
\* The call has no result the model could name, and nothing is said of the
\* program from there on.
ArrUndefined(op, args) ==
  /\ call' = [op |-> op, self |-> A, args |-> args, aborted |-> FALSE, ub |-> TRUE]
  /\ UNCHANGED <<buf, S, arrLen, A, ndebug>>

\* A call that returned the view ret, which the caller keeps as its view.
ArrReturned(op, args, ret) ==
  /\ call' = [op |-> op, self |-> A, args |-> args, ret |-> ret,
              aborted |-> FALSE, ub |-> FALSE]
  /\ A' = ret
  /\ UNCHANGED <<buf, S, arrLen, ndebug>>

\* A = ArrayRef<T>(A).drop_front()
ArrDropFront ==
  /\ Idle
  /\ IF ArrayRef_emptyAssertFails(A) THEN ArrAborted("ArrayRef::drop_front", << >>)
     ELSE IF PtrLeavesArray(A, 1) THEN ArrUndefined("ArrayRef::drop_front", << >>)
     ELSE ArrReturned("ArrayRef::drop_front", << >>, ArrayRef_drop_front(A))

\* A = ArrayRef<T>(A).drop_back(N)
ArrDropBack(N) ==
  /\ Idle
  /\ IF ArrayRef_emptyAssertFails(A) THEN ArrAborted("ArrayRef::drop_back", <<N>>)
     ELSE ArrReturned("ArrayRef::drop_back", <<N>>, ArrayRef_drop_back(A, N))

\* A = A.slice(N, M), A a MutableArrayRef
MutSlice(N, M) ==
  /\ Idle
  /\ A.mut
  /\ IF sliceAssertFails(A, N, M) THEN ArrAborted("slice", <<N, M>>)
     ELSE IF PtrLeavesArray(A, N) THEN ArrUndefined("slice", <<N, M>>)
     ELSE ArrReturned("slice", <<N, M>>, MutableArrayRef_slice(A, N, M))

\* A = A.slice(N): slice(N, this->size() - N)
MutSlice1(N) ==
  /\ Idle
  /\ A.mut
  /\ IF sliceAssertFails(A, N, SizeSub(A.len, N)) THEN ArrAborted("slice1", <<N>>)
     ELSE IF PtrLeavesArray(A, N) THEN ArrUndefined("slice1", <<N>>)
     ELSE ArrReturned("slice1", <<N>>,
                      MutableArrayRef_slice(A, N, SizeSub(A.len, N)))

\* A = A.drop_front(N): its assert, then slice(N, this->size() - N)
MutDropFront(N) ==
  /\ Idle
  /\ A.mut
  /\ IF arrDropAssertFails(A, N) \/ sliceAssertFails(A, N, SizeSub(A.len, N))
     THEN ArrAborted("drop_front", <<N>>)
     ELSE IF PtrLeavesArray(A, N) THEN ArrUndefined("drop_front", <<N>>)
     ELSE ArrReturned("drop_front", <<N>>,
                      MutableArrayRef_slice(A, N, SizeSub(A.len, N)))

\* A = A.drop_back(N): its assert, then slice(0, this->size() - N)
MutDropBack(N) ==
  /\ Idle
  /\ A.mut
  /\ IF arrDropAssertFails(A, N) \/ sliceAssertFails(A, 0, SizeSub(A.len, N))
     THEN ArrAborted("drop_back", <<N>>)
     ELSE ArrReturned("drop_back", <<N>>,
                      MutableArrayRef_slice(A, 0, SizeSub(A.len, N)))

\* The caller is done with the result of a call that returned.
ArrReturn ==
  /\ ~Idle
  /\ ~call.aborted
  /\ ~call.ub
  /\ call' = NoCall
  /\ UNCHANGED <<buf, S, arrLen, A, ndebug>>

\* An ArrayRef or a MutableArrayRef over a whole array of arrLen elements
ArrInit ==
  /\ arrLen \in 0 .. MaxLen
  /\ A \in {MkArr(mut, 0, arrLen) : mut \in BOOLEAN}
  /\ ndebug \in BOOLEAN
  /\ call = NoCall
  /\ buf = << >>
  /\ S = EmptyRef

ArrNext ==
  \/ ArrDropFront
  \/ \E N \in SizeArgs : ArrDropBack(N)
  \/ \E N \in SizeArgs, M \in SizeArgs : MutSlice(N, M)
  \/ \E N \in SizeArgs : MutSlice1(N)
  \/ \E N \in SizeArgs : MutDropFront(N)
  \/ \E N \in SizeArgs : MutDropBack(N)
  \/ ArrReturn

ArrSpec == ArrInit /\ [][ArrNext]_vars

\* ------------------------------------------------------------------- claims
\* The indices (from 0) at which character c stands in the string s.
Occurrences(s, c) == {i \in 0 .. Len(s) - 1 : s[i + 1] = c}

Least(I) == CHOOSE i \in I : \A j \in I : i <= j
Greatest(I) == CHOOSE i \in I : \A j \in I : j <= i

\* The view v denotes a range of the buffer, or is the default empty view.
InExtent(v) ==
  \/ v = EmptyRef
  \/ ~v.null /\ 0 <= v.off /\ 0 <= v.len /\ v.off + v.len <= Len(buf)

\* C1: split(c) returns (l, r) where, if c occurs in s, l is the characters
\* strictly before the first c (so l holds no c), r is the characters after
\* that first c, and l + c + r = s; if c does not occur, l = s and r is the
\* empty view.
C1_SplitAroundFirstSeparator ==
  call.op = "split" =>
    LET s == Str(call.self)
        c == call.args[1]
        l == Str(call.ret[1])
        r == Str(call.ret[2])
    IN  IF Occurrences(s, c) # {}
        THEN LET k == Least(Occurrences(s, c))
             IN  /\ l = SubSeq(s, 1, k)
                 /\ r = SubSeq(s, k + 2, Len(s))
                 /\ Occurrences(l, c) = {}
                 /\ l \o <<c>> \o r = s
        ELSE /\ call.ret[1] = call.self
             /\ l = s
             /\ call.ret[2] = EmptyRef

\* A split at a separator that stands inside the view and again after it.
C1_Witness ==
  /\ call.op = "split"
  /\ Cardinality(Occurrences(Str(call.self), call.args[1])) >= 2
  /\ Least(Occurrences(Str(call.self), call.args[1])) >= 1
  /\ call.ret[2].len >= 1

\* The sign of the byte-wise lexicographic order of the strings a and b.
LexSign(a, b) ==
  LET differ == {i \in 1 .. Min(Len(a), Len(b)) : a[i] # b[i]}
  IN  IF differ # {}
      THEN (IF a[Least(differ)] < b[Least(differ)] THEN -1 ELSE 1)
      ELSE IF Len(a) = Len(b) THEN 0
      ELSE IF Len(a) < Len(b) THEN -1 ELSE 1

\* C2: compare returns -1, 0 or +1, decided by the first differing byte of
\* the common prefix if there is one and by the lengths otherwise; it is
\* antisymmetric, compare(a, b) = -compare(b, a), and transitive:
\* compare(a, b) <= 0 and compare(b, c) <= 0 imply compare(a, c) <= 0.
C2_CompareIsLexicographicOrder ==
  call.op = "compare" =>
    LET a == Str(call.self)
        b == call.args[1]
        c == call.args[2]
    IN  /\ call.ret \in {-1, 0, 1}
        /\ call.ret = LexSign(a, b)
        /\ call.back = LexSign(b, a)
        /\ call.next = LexSign(b, c)
        /\ call.far = LexSign(a, c)
        /\ call.ret = -call.back
        /\ (call.ret <= 0 /\ call.next <= 0) => call.far <= 0
        /\ (call.ret = 0) <=> (a = b)

\* Three strings in strictly increasing order, the first a proper prefix of
\* the second, the second and third differing in a byte.
C2_Witness ==
  /\ call.op = "compare"
  /\ call.ret = -1
  /\ call.next = -1
  /\ call.far = -1
  /\ call.self.len >= 1
  /\ call.self.len < Len(call.args[1])
  /\ Len(call.args[1]) = Len(call.args[2])

\* C3: on the read-only array view, in a checked build, drop_back(n) fails
\* fast when size() < n, and otherwise returns the view over the same first
\* element with the last n elements removed, size() - n elements.
C3_DropBackDropsN ==
  (call.op = "ArrayRef::drop_back" /\ ~ndebug) =>
    IF call.self.len < call.args[1]
    THEN call.aborted
    ELSE /\ ~call.aborted
         /\ call.ret.off = call.self.off
         /\ call.ret.len = call.self.len - call.args[1]

\* C4: in a checked build, a MutableArrayRef::slice(offset, count) or
\* slice(offset) that passes its precondition check has offset <= size() and
\* offset + count <= size() in arithmetic that does not wrap.
C4_SliceStaysInExtent ==
  (call.op \in {"slice", "slice1"} /\ ~ndebug /\ ~call.aborted) =>
    LET offset == call.args[1]
        count == IF call.op = "slice" THEN call.args[2]
                 ELSE SizeSub(call.self.len, call.args[1])
    IN  /\ offset <= call.self.len
        /\ offset + count <= call.self.len

\* The string p is a prefix / a suffix of the string s.
IsPrefix(p, s) == Len(p) <= Len(s) /\ SubSeq(s, 1, Len(p)) = p
IsSuffix(p, s) == Len(p) <= Len(s) /\ SubSeq(s, Len(s) - Len(p) + 1, Len(s)) = p

\* C5: consume_front(prefix) returns true and drops exactly the first
\* prefix.size() characters of the view iff the view started with prefix,
\* and otherwise returns false and leaves (data, length) as they were;
\* consume_back(suffix) likewise at the end; neither writes the buffer.
C5_ConsumeFrame ==
  /\ call.op = "consume_front" =>
       LET v == call.self
           n == Len(call.args[1])
       IN  /\ ~call.aborted
           /\ call.ret <=> IsPrefix(call.args[1], Str(v))
           /\ call.ret => S = MkRef(v.null, v.off + n, v.len - n)
           /\ ~call.ret => S = v
           /\ buf = call.mem
  /\ call.op = "consume_back" =>
       LET v == call.self
           n == Len(call.args[1])
       IN  /\ ~call.aborted
           /\ call.ret <=> IsSuffix(call.args[1], Str(v))
           /\ call.ret => S = MkRef(v.null, v.off, v.len - n)
           /\ ~call.ret => S = v
           /\ buf = call.mem

\* A consume_front that removed a non-empty prefix and left characters.
C5_Witness ==
  /\ call.op = "consume_front"
  /\ call.ret
  /\ Len(call.args[1]) >= 1
  /\ S.len >= 1

\* C6: for n in [0, size()], take_front(n) is the first n characters,
\* drop_front(n) is the other size() - n, and the two concatenated are the
\* view, character for character.
C6_TakeDropReconstruct ==
  /\ (call.op = "take_front" /\ call.args[1] <= call.self.len) =>
       LET s == Str(call.self)
           n == call.args[1]
       IN  /\ ~call.aborted
           /\ call.ret.len = n
           /\ Str(call.ret) = SubSeq(s, 1, n)
           /\ Str(call.ret) \o Str(drop_front(call.self, n)) = s
  /\ (call.op = "drop_front" /\ call.args[1] <= call.self.len) =>
       LET s == Str(call.self)
           n == call.args[1]
       IN  /\ ~call.aborted
           /\ call.ret.len = call.self.len - n
           /\ Str(call.ret) = SubSeq(s, n + 1, Len(s))
           /\ Str(take_front(call.self, n)) \o Str(call.ret) = s

\* A take_front strictly inside the view.
C6_Witness ==
  /\ call.op = "take_front"
  /\ ~call.aborted
  /\ 0 < call.args[1]
  /\ call.args[1] < call.self.len

\* C7: find(c, from) returns the least index i with from <= i < size() and
\* s[i] = c, and npos when there is none (so on an empty view and for
\* from >= size()); it reads no character at or past index size().
C7_FindLeastFrom ==
  call.op = "find" =>
    LET s == Str(call.self)
        hits == {i \in Occurrences(s, call.args[1]) : call.args[2] <= i}
    IN  /\ hits # {} => call.ret = Least(hits)
        /\ hits = {} => call.ret = npos
        /\ (call.self.len = 0 \/ call.args[2] >= call.self.len) => call.ret = npos
        /\ \A i \in call.reads : 0 <= i /\ i < call.self.len

\* A find from inside the view that skips an earlier occurrence.
C7_Witness ==
  /\ call.op = "find"
  /\ call.args[2] >= 1
  /\ call.ret # npos
  /\ \E i \in Occurrences(Str(call.self), call.args[1]) : i < call.args[2]

\* C8: rfind(c, from) returns the greatest index i with i < min(from, size())
\* and s[i] = c, and npos when there is none (so on an empty view and for
\* from = 0); with from = npos it is the last occurrence in the view.
C8_RFindGreatestBelow ==
  call.op = "rfind" =>
    LET s == Str(call.self)
        hits == {i \in Occurrences(s, call.args[1]) :
                   i < Min(call.args[2], call.self.len)}
    IN  /\ hits # {} => call.ret = Greatest(hits)
        /\ hits = {} => call.ret = npos
        /\ (call.self.len = 0 \/ call.args[2] = 0) => call.ret = npos
        /\ (call.args[2] = npos /\ Occurrences(s, call.args[1]) # {}) =>
             call.ret = Greatest(Occurrences(s, call.args[1]))

\* An rfind whose bound stands on an occurrence, which it passes over for an
\* earlier one.
C8_Witness ==
  /\ call.op = "rfind"
  /\ call.args[2] < call.self.len
  /\ call.args[2] \in Occurrences(Str(call.self), call.args[1])
  /\ call.ret # npos

\* C9: slice(start, end) never fails; with s' = min(start, size()) and
\* e' = max(s', min(end, size())) the result is the characters at [s', e'),
\* so s' <= e' <= size(); slice(0, size()) is the view itself and
\* slice(start, end) with end < start is empty.
C9_SliceClamps ==
  call.op = "slice" =>
    LET v == call.self
        s1 == Min(call.args[1], v.len)
        e1 == Max(s1, Min(call.args[2], v.len))
    IN  /\ ~call.aborted
        /\ s1 <= e1 /\ e1 <= v.len
        /\ call.ret = MkRef(v.null, v.off + s1, e1 - s1)
        /\ Str(call.ret) = SubSeq(Str(v), s1 + 1, e1)
        /\ (call.args[1] = 0 /\ call.args[2] = v.len) => call.ret = v
        /\ call.args[2] < call.args[1] => call.ret.len = 0

\* A slice of a view whose end lies before its start, both inside the view.
C9_Witness ==
  /\ call.op = "slice"
  /\ call.args[2] < call.args[1]
  /\ call.args[1] < call.self.len

\* C10: after any sequence of substr, slice, take_front, take_back,
\* drop_front, drop_back, consume_front, consume_back and split with any
\* arguments, with or without asserts, every view is the default empty view
\* or a range [a, b) of the buffer with 0 <= a <= b <= length.
C10_ViewsStayInExtent ==
  /\ InExtent(S)
  /\ (call.op = "split") => InExtent(call.ret[1]) /\ InExtent(call.ret[2])

\* A drop_back of more characters than the view has, asserts compiled out.
C10_Witness ==
  /\ call.op = "drop_back"
  /\ ndebug
  /\ call.args[1] > call.self.len
  /\ call.self.len >= 1
  /\ call.self.off >= 1
====
